---- MODULE Spec2Model ----
(***************************************************************************)
(* A model of doulist.py: the paginated crawl with its per-source cache,   *)
(* the merge / exclusion / deduplication / year filter pipeline, the       *)
(* segmented RSS writer and the write-temp / backup / replace primitive.   *)
(*                                                                         *)
(* Python strings are modelled as tuples of one-character strings, so that *)
(* str.strip, str.isdigit, int and str.split are computed and not assumed. *)
(* A missing dictionary key (or a None value) is the value None.           *)
(***************************************************************************)
EXTENDS Integers, Sequences, FiniteSets, TLC

\* ------------------------------------------------------------------ bounds
\* longest record list given to the pure functions
MaxItems == 3
\* largest chunk size tried by the segmented writer
MaxChunk == 3

\* ------------------------------------------------------------ python values
None == <<"<None>">>

\* `x or ""`
OrEmpty(x) == IF x = None THEN <<>> ELSE x

IsSpace(c) == c \in {" ", "\t", "\n"}

RECURSIVE LStrip(_)
LStrip(s) == IF s # <<>> /\ IsSpace(Head(s)) THEN LStrip(Tail(s)) ELSE s

RECURSIVE RStrip(_)
RStrip(s) ==
  IF s # <<>> /\ IsSpace(s[Len(s)]) THEN RStrip(SubSeq(s, 1, Len(s) - 1)) ELSE s

\* str.strip()
Strip(s) == RStrip(LStrip(s))

AsciiDigits == {"0", "1", "2", "3", "4", "5", "6", "7", "8", "9"}
\* characters for which str.isdigit() is true and int() raises ValueError
SuperDigits == {"²"}

\* str.isdigit(): non-empty and every character is a Unicode digit
IsDigit(s) == s # <<>> /\ \A i \in 1..Len(s) : s[i] \in AsciiDigits \cup SuperDigits

\* the strings int() accepts among those isdigit() accepts
IsDecimal(s) == s # <<>> /\ \A i \in 1..Len(s) : s[i] \in AsciiDigits

DigitVal(c) ==
  CASE c = "0" -> 0 [] c = "1" -> 1 [] c = "2" -> 2 [] c = "3" -> 3 [] c = "4" -> 4
    [] c = "5" -> 5 [] c = "6" -> 6 [] c = "7" -> 7 [] c = "8" -> 8 [] c = "9" -> 9

RECURSIVE IntOf(_)
\* int(s) for a decimal string
IntOf(s) ==
  IF s = <<>> THEN 0 ELSE 10 * IntOf(SubSeq(s, 1, Len(s) - 1)) + DigitVal(s[Len(s)])

DigitChar(d) ==
  CASE d = 0 -> "0" [] d = 1 -> "1" [] d = 2 -> "2" [] d = 3 -> "3" [] d = 4 -> "4"
    [] d = 5 -> "5" [] d = 6 -> "6" [] d = 7 -> "7" [] d = 8 -> "8" [] d = 9 -> "9"

RECURSIVE Str(_)
\* str(n), as f"{n}" renders a natural number
Str(n) == IF n < 10 THEN <<DigitChar(n)>> ELSE Str(n \div 10) \o <<DigitChar(n % 10)>>

\* ------------------------------------------------------------ normalize_year
\* normalize_year raises ValueError: isdigit() passed, int() refuses
NormalizeYearRaises(year_str) ==
  LET y == Strip(OrEmpty(year_str)) IN IsDigit(y) /\ ~IsDecimal(y)

\* Optional[int] as a set: {} is None, {y} is y
normalize_year(year_str) ==
  LET y == Strip(OrEmpty(year_str)) IN IF ~IsDigit(y) THEN {} ELSE {IntOf(y)}

\* ---------------------------------------------------------- deduplicate_items
Modes == {"title_year", "title_link", "link"}

\* the key of one record under a mode
DedupKey(m, mode) ==
  LET title == Strip(OrEmpty(m.title))
      year == Strip(OrEmpty(m.year))
      link == Strip(OrEmpty(m.link))
  IN IF mode = "title_link" THEN <<title, link>>
     ELSE IF mode = "link" THEN <<link>>
     ELSE <<title, year>>

RECURSIVE DedupLoopKeepLast(_, _, _, _)
\* mutant of DedupLoop: the last record of each key is kept, not the first
DedupLoopKeepLast(items, mode, seen, result) ==
  IF items = <<>> THEN result
  ELSE LET m == Head(items)
           key == DedupKey(m, mode)
           rest == Tail(items)
       IN IF \E j \in 1..Len(rest) : DedupKey(rest[j], mode) = key
          THEN DedupLoopKeepLast(rest, mode, seen, result)
          ELSE DedupLoopKeepLast(rest, mode, seen \cup {key}, Append(result, m))

RECURSIVE DedupLoop(_, _, _, _)
\* the for loop of deduplicate_items, with its seen set and result list
DedupLoop(items, mode, seen, result) ==
  IF items = <<>> THEN result
  ELSE LET m == Head(items)
           key == DedupKey(m, mode)
       IN IF key \in seen
          THEN DedupLoop(Tail(items), mode, seen, result)
          ELSE DedupLoop(Tail(items), mode, seen \cup {key}, Append(result, m))

deduplicate_items(items, mode) == DedupLoop(items, mode, {}, <<>>)

\* ------------------------------------------------------- filter_items_by_year
\* the first record, if any, on which normalize_year raises
FilterRaises(items) == \E i \in 1..Len(items) : NormalizeYearRaises(items[i].year)

\* the three `continue` tests of the loop body, negated
FilterKeep(m, min_year, max_year) ==
  LET y == normalize_year(m.year)
  IN /\ y # {}
     /\ \A v \in y : /\ (min_year # {} => \A lo \in min_year : ~(v < lo))
                     /\ (max_year # {} => \A hi \in max_year : ~(v > hi))

RECURSIVE FilterLoop(_, _, _, _)
FilterLoop(items, min_year, max_year, result) ==
  IF items = <<>> THEN result
  ELSE FilterLoop(Tail(items), min_year, max_year,
                  IF FilterKeep(Head(items), min_year, max_year)
                  THEN Append(result, Head(items)) ELSE result)

\* the list filter_items_by_year returns when it returns
filter_items_by_year(items, min_year, max_year) ==
  FilterLoop(items, min_year, max_year, <<>>)

\* ------------------------------------------------------------- file system
\* A directory tree is a function from the paths that exist to their content.
\* Paths are tuples of strings; the numbers in a name are rendered in decimal.
NoFiles == [p \in {} |-> <<>>]

Exists(fs, path) == path \in DOMAIN fs

\* path -> content added or overwritten
WithFile(fs, path, content) ==
  [p \in DOMAIN fs \cup {path} |-> IF p = path THEN content ELSE fs[p]]

WithoutFile(fs, path) == [p \in DOMAIN fs \ {path} |-> fs[p]]

\* os.replace(src, dst) on an existing src
Replace(fs, src, dst) == WithoutFile(WithFile(fs, dst, fs[src]), src)

\* f"{path}.bak.{datetime.now():%Y%m%dT%H%M%S}", ts the clock in seconds
BakPath(path, ts) == path \o <<".bak.">> \o Str(ts)

\* f"{path}.tmp.{uuid4().hex}", who the caller that drew the uuid
TmpPath(path, who) == path \o <<".tmp.">> \o who

LockPath(path) == path \o <<".lock">>

\* _atomic_write run from start to end with nothing failing but, when bak_ok
\* is FALSE, the backup rename (whose exception is swallowed): the temporary
\* file is written, the old file is renamed aside, the temporary file is
\* moved onto the target and the finally block finds nothing to remove.
AtomicWrite(fs, path, content, enable_backup, bak_ok, ts) ==
  LET tmp == TmpPath(path, <<"uuid">>)
      written == WithFile(fs, tmp, content)
      backed == IF enable_backup /\ Exists(written, path) /\ bak_ok
                THEN Replace(written, path, BakPath(path, ts))
                ELSE written
  IN Replace(backed, tmp, path)

\* ------------------------------------------------------- build_rss_segmented
\* The XML that ElementTree writes is modelled by the records it holds.
RssOf(items) == [kind |-> "rss", items |-> items]

Min(a, b) == IF a < b THEN a ELSE b

\* items[start:end], 0-based, end exclusive
Slice(items, start, end) == SubSeq(items, start + 1, Min(end, Len(items)))

\* mutant of NumChunks: floor division
NumChunksFloor(total, chunk_size) == IF total > 0 THEN total \div chunk_size ELSE 1

\* num = (total + chunk_size - 1) // chunk_size if total > 0 else 1
NumChunks(total, chunk_size) ==
  IF total > 0 THEN (total + chunk_size - 1) \div chunk_size ELSE 1

\* An output file is <<directory, name, extension>>.
\* os.path.splitext(output_file)
SplitBase(output_file) == SubSeq(output_file, 1, Len(output_file) - 1)
SplitExt(output_file) == <<output_file[Len(output_file)]>>

\* os.path.basename
Basename(path) == Tail(path)

\* mutant of PartPath: a single chunk goes to output_file itself, as the
\* docstring of build_rss_segmented says
PartPathBareWhenSingle(output_file, i, num) ==
  IF num = 1 THEN output_file
  ELSE SplitBase(output_file) \o <<"_part_">> \o Str(i) \o <<"_of_">> \o Str(num)
         \o SplitExt(output_file)

\* f"{base}_part_{i}_of_{num}{ext}"
PartPath(output_file, i, num) ==
  SplitBase(output_file) \o <<"_part_">> \o Str(i) \o <<"_of_">> \o Str(num)
    \o SplitExt(output_file)

\* f"{base}_parts.json"
ManifestPath(output_file) == SplitBase(output_file) \o <<"_parts.json">>

\* the parts_info entry appended in iteration i (0-based) of the chunk loop
PartInfo(items, output_file, chunk_size, i) ==
  LET total == Len(items)
      num == NumChunks(total, chunk_size)
      start == i * chunk_size
      end == Min(start + chunk_size, total)
  IN [file |-> Basename(PartPath(output_file, i + 1, num)), index |-> i + 1, of |-> num,
      start_item |-> IF total > 0 THEN start + 1 ELSE 0,
      end_item |-> end, count |-> Len(Slice(items, start, end))]

\* the manifest document
Manifest(items, output_file, chunk_size) ==
  [total_items |-> Len(items), chunk_size |-> chunk_size,
   parts |-> [k \in 1..NumChunks(Len(items), chunk_size) |->
                PartInfo(items, output_file, chunk_size, k - 1)]]

RECURSIVE WriteChunksSkipLast(_, _, _, _, _, _)
\* mutant of WriteChunks: the loop ends one iteration early
WriteChunksSkipLast(fs, items, output_file, chunk_size, i, ts) ==
  LET total == Len(items)
      num == NumChunks(total, chunk_size)
      start == i * chunk_size
      end == Min(start + chunk_size, total)
  IN IF i >= num - 1 THEN fs
     ELSE WriteChunksSkipLast(
            AtomicWrite(fs, PartPath(output_file, i + 1, num), RssOf(Slice(items, start, end)),
                        TRUE, TRUE, ts),
            items, output_file, chunk_size, i + 1, ts)

RECURSIVE WriteChunks(_, _, _, _, _, _)
\* iterations i .. num-1 of the chunk loop
WriteChunks(fs, items, output_file, chunk_size, i, ts) ==
  LET total == Len(items)
      num == NumChunks(total, chunk_size)
      start == i * chunk_size
      end == Min(start + chunk_size, total)
  IN IF i >= num THEN fs
     ELSE WriteChunks(
            AtomicWrite(fs, PartPath(output_file, i + 1, num), RssOf(Slice(items, start, end)),
                        TRUE, TRUE, ts),
            items, output_file, chunk_size, i + 1, ts)

\* mutant of build_rss_segmented: no early return on an empty list
build_rss_segmented_no_skip(fs, items, output_file, chunk_size, ts) ==
  AtomicWrite(WriteChunks(fs, items, output_file, chunk_size, 0, ts),
              ManifestPath(output_file), Manifest(items, output_file, chunk_size),
              TRUE, TRUE, ts)

\* the files after build_rss_segmented(items, output_file, chunk_size)
build_rss_segmented(fs, items, output_file, chunk_size, ts) ==
  IF items = <<>> THEN fs
  ELSE AtomicWrite(WriteChunks(fs, items, output_file, chunk_size, 0, ts),
                   ManifestPath(output_file), Manifest(items, output_file, chunk_size),
                   TRUE, TRUE, ts)

\* ================================================================= state
VARIABLES
  now,      \* the wall clock, in seconds
  pin,      \* pure calls: the record list given
  pcall,    \* pure calls: the function called and its arguments
  pres,     \* pure calls: what the call produced
  sfs,      \* segmented writer: the output directory
  slast,    \* segmented writer: the arguments of the latest call and of the
            \* latest call that had records
  scalls,   \* segmented writer: calls made so far
  wfs,      \* _atomic_write: the directory of the target
  wpc,      \* _atomic_write: where each writing process stands
  wcall,    \* _atomic_write: each process's arguments and locals
  wcount,   \* _atomic_write: calls each process has started
  cfg,      \* crawl: urls and start_page given to crawl_multiple_doulists
  disk,     \* crawl: the cache, output and filtered-output directories
  remote,   \* crawl: the pages the remote site has served, by url
  pc,       \* crawl: the statement the process is at
  idx,      \* crawl: position of the for loop in urls (1-based)
  raw,      \* crawl: all_items_raw
  cs,       \* crawl: the locals of crawl_single_doulist
  run,      \* crawl: how many times the program has been started
  merge,    \* crawl: arguments and results of the merge of the latest run
  hist,     \* crawl: what each run fetched, saved and returned
  rpc,      \* concurrent runs: the statement each run is at
  rloc      \* concurrent runs: each run's locals in crawl_single_doulist

pureVars == <<pin, pcall, pres>>
segVars == <<sfs, slast, scalls>>
writeVars == <<wfs, wpc, wcall, wcount>>
crawlVars == <<cfg, disk, remote, pc, idx, raw, cs, run, merge, hist>>
runVars == <<rpc, rloc>>
vars == <<now, pureVars, segVars, writeVars, crawlVars, runVars>>

\* ------------------------------------------------------------ more bounds
\* longest record list given to the segmented writer
MaxSegItems == 5
\* calls of the segmented writer on one target
MaxSegCalls == 2
\* seconds the clock can advance
MaxClock == 1

PureIdle == pin = <<>> /\ pcall = [op |-> "none"] /\ pres = [raised |-> FALSE, out |-> <<>>]
SegIdle == sfs = NoFiles /\ slast = [called |-> FALSE, live |-> <<>>] /\ scalls = 0

\* calls of _atomic_write one process starts
MaxWrites == 2

\* the processes that may write the same target
Writers == {"w1", "w2"}

NoCall == [content |-> "", enable_backup |-> FALSE, enable_lock |-> FALSE,
           lock_acquired |-> FALSE, pre |-> "", exc |-> FALSE, bak_name |-> <<>>]

WriteIdle ==
  /\ wfs = NoFiles
  /\ wpc = [p \in Writers |-> "idle"]
  /\ wcall = [p \in Writers |-> NoCall]
  /\ wcount = [p \in Writers |-> 0]

NoLocals ==
  [doulist_id |-> <<>>, all_items |-> <<>>, url |-> <<>>, page |-> 0,
   html |-> [items |-> <<>>, next |-> None], page_items |-> <<>>,
   cached |-> <<>>, pages |-> <<>>, empty_seen |-> FALSE,
   fetches |-> 0, saves |-> 0, progress |-> 0]

NoMerge == [done |-> FALSE]

NoHist == [results |-> <<>>, started |-> 0, fatal |-> FALSE, segmented |-> 0,
           first |-> [done |-> FALSE], raised |-> ""]

CrawlIdle ==
  /\ cfg = [urls |-> <<>>, start_page |-> 1]
  /\ disk = NoFiles
  /\ remote = NoFiles
  /\ pc = "off"
  /\ idx = 1
  /\ raw = <<>>
  /\ cs = NoLocals
  /\ run = 1
  /\ merge = NoMerge
  /\ hist = NoHist

\* the program started twice at the same time on the same directories
Runs == {"r1", "r2"}

NoRun == [start_page |-> 1, page |-> 0, all_items |-> <<>>, page_items |-> <<>>,
          saved |-> <<>>]

RunsIdle ==
  /\ rpc = [r \in Runs |-> "off"]
  /\ rloc = [r \in Runs |-> NoRun]

\* time passes
Tick == now < MaxClock /\ now' = now + 1

\* ------------------------------------------- the pure functions, called alone
Rec(t, y, l) == [title |-> t, year |-> y, link |-> l]

\* Records that collide under one mode and differ under another, with years
\* that are padded, absent, not numeric, and digits int() refuses.
PureRecords ==
  { Rec(<<"A">>, <<"7">>, <<"u">>),
    Rec(<<" ", "A">>, <<"7", " ">>, <<"v">>),
    Rec(<<"B">>, <<"1", "2">>, <<"u">>),
    Rec(<<"A">>, None, <<"u", " ">>),
    Rec(<<"B">>, <<"x">>, None),
    Rec(<<"C">>, <<"²">>, <<"w">>) }

SeqsUpTo(S, n) == UNION {[1..k -> S] : k \in 0..n}

\* Optional[int] year bounds
YearBounds == {{}, {0}, {7}, {12}}

InitPure ==
  /\ pin \in SeqsUpTo(PureRecords, MaxItems)
  /\ pcall = [op |-> "none"]
  /\ pres = [raised |-> FALSE, out |-> <<>>]
  /\ now = 0
  /\ SegIdle
  /\ WriteIdle
  /\ CrawlIdle
  /\ RunsIdle

CallDedup ==
  /\ pcall.op = "none"
  /\ \E mode \in Modes :
       /\ pcall' = [op |-> "dedup", mode |-> mode]
       /\ pres' = [raised |-> FALSE, out |-> deduplicate_items(pin, mode)]
  /\ UNCHANGED <<pin, now, segVars, writeVars, crawlVars, runVars>>

CallFilter ==
  /\ pcall.op = "none"
  /\ \E min_year \in YearBounds, max_year \in YearBounds :
       /\ pcall' = [op |-> "filter", min_year |-> min_year, max_year |-> max_year]
       /\ pres' = IF FilterRaises(pin)
                  THEN [raised |-> TRUE, out |-> <<>>]
                  ELSE [raised |-> FALSE,
                        out |-> filter_items_by_year(pin, min_year, max_year)]
  /\ UNCHANGED <<pin, now, segVars, writeVars, crawlVars, runVars>>

NextPure == CallDedup \/ CallFilter

SpecPure == InitPure /\ [][NextPure]_vars

\* ------------------------------------- the segmented writer, called repeatedly
SegTarget == <<"rss_files/", "merged_all_doulists", ".xml">>

SegPattern == <<Rec(<<"A">>, <<"7">>, <<"u">>), Rec(<<"B">>, <<"1", "2">>, <<"v">>),
                Rec(<<"C">>, None, <<"w">>)>>

\* the record list of n records, all neighbours distinct
SegItems(n) == [k \in 1..n |-> SegPattern[((k - 1) % 3) + 1]]

InitSeg ==
  /\ sfs = NoFiles
  /\ slast = [called |-> FALSE, live |-> <<>>]
  /\ scalls = 0
  /\ now = 0
  /\ PureIdle
  /\ WriteIdle
  /\ CrawlIdle
  /\ RunsIdle

CallSegmented ==
  /\ scalls < MaxSegCalls
  /\ \E n \in 0..MaxSegItems, chunk_size \in 1..MaxChunk :
       /\ sfs' = build_rss_segmented(sfs, SegItems(n), SegTarget, chunk_size, now)
       /\ slast' = [called |-> TRUE, items |-> SegItems(n), chunk_size |-> chunk_size,
                     live |-> IF n > 0
                              THEN <<[items |-> SegItems(n), chunk_size |-> chunk_size]>>
                              ELSE slast.live]
  /\ scalls' = scalls + 1
  /\ UNCHANGED <<now, pureVars, writeVars, crawlVars, runVars>>

TickSeg == Tick /\ UNCHANGED <<pureVars, segVars, writeVars, crawlVars, runVars>>

NextSeg == CallSegmented \/ TickSeg

SpecSeg == InitSeg /\ [][NextSeg]_vars

\* ------------------------------------------ _atomic_write, statement by statement
WTarget == <<"cache_doulist/", "doulist_1", ".json">>

\* what a file holds before its writer has finished
Partial == "partial"
\* the content of a path, "" when the path does not exist
Content(fs, path) == IF Exists(fs, path) THEN fs[path] ELSE ""

WContents == {"a", "b"}

\* the temporary path of process p's current call (a fresh uuid per call)
WTmp(p) == TmpPath(WTarget, <<p>> \o Str(wcount[p]))

InitWrite ==
  /\ wfs \in {NoFiles, WithFile(NoFiles, WTarget, "old")}
  /\ wpc = [p \in Writers |-> "idle"]
  /\ wcall = [p \in Writers |-> NoCall]
  /\ wcount = [p \in Writers |-> 0]
  /\ now = 0
  /\ PureIdle
  /\ SegIdle
  /\ CrawlIdle
  /\ RunsIdle

WFrame == UNCHANGED <<now, pureVars, segVars, crawlVars, runVars>>

\* lines 99-101: the call starts, its flags drawn from the given sets
WStartWith(p, backups, locks) ==
  /\ wpc[p] = "idle"
  /\ wcount[p] < MaxWrites
  /\ \E content \in WContents, enable_backup \in backups, enable_lock \in locks :
       /\ wcall' = [wcall EXCEPT ![p] =
            [content |-> content, enable_backup |-> enable_backup,
             enable_lock |-> enable_lock, lock_acquired |-> FALSE,
             pre |-> Content(wfs, WTarget), exc |-> FALSE, bak_name |-> <<>>]]
       /\ wpc' = [wpc EXCEPT ![p] = IF enable_lock THEN "acquire" ELSE "write"]
  /\ wcount' = [wcount EXCEPT ![p] = @ + 1]
  /\ UNCHANGED wfs
  /\ WFrame

\* a call of _atomic_write with any flags
WStart(p) == WStartWith(p, BOOLEAN, BOOLEAN)

\* the call save_cache makes, line 475: enable_backup=True, enable_lock=True
WStartSave(p) == WStartWith(p, {TRUE}, {TRUE})

\* mutant of WAcquire: os.open without O_EXCL, the marker is overwritten
WAcquireNoExcl(p) ==
  /\ wpc[p] = "acquire"
  /\ wfs' = WithFile(wfs, LockPath(WTarget), p)
  /\ wcall' = [wcall EXCEPT ![p].lock_acquired = TRUE]
  /\ wpc' = [wpc EXCEPT ![p] = "write"]
  /\ UNCHANGED wcount
  /\ WFrame

\* _acquire_lock, line 74: os.open with O_CREAT | O_EXCL creates the marker
WAcquire(p) ==
  /\ wpc[p] = "acquire"
  /\ ~Exists(wfs, LockPath(WTarget))
  /\ wfs' = WithFile(wfs, LockPath(WTarget), p)
  /\ wcall' = [wcall EXCEPT ![p].lock_acquired = TRUE]
  /\ wpc' = [wpc EXCEPT ![p] = "write"]
  /\ UNCHANGED wcount
  /\ WFrame

\* _acquire_lock, lines 80-82 and 105-106: the marker was there at every poll
\* until the timeout; RuntimeError is raised
WAcquireTimeout(p) ==
  /\ wpc[p] = "acquire"
  /\ Exists(wfs, LockPath(WTarget))
  /\ wcall' = [wcall EXCEPT ![p].exc = TRUE]
  /\ wpc' = [wpc EXCEPT ![p] = "release"]
  /\ UNCHANGED <<wfs, wcount>>
  /\ WFrame

\* line 112, first half: the writer has opened the temporary file
WOpenTmp(p) ==
  /\ wpc[p] = "write"
  /\ wfs' = WithFile(wfs, WTmp(p), Partial)
  /\ wpc' = [wpc EXCEPT ![p] = "writing"]
  /\ UNCHANGED <<wcall, wcount>>
  /\ WFrame

\* line 112, second half: the writer has written everything and closed
WWriteTmp(p) ==
  /\ wpc[p] = "writing"
  /\ wfs' = WithFile(wfs, WTmp(p), wcall[p].content)
  /\ wpc' = [wpc EXCEPT ![p] = "backup"]
  /\ UNCHANGED <<wcall, wcount>>
  /\ WFrame

\* mutant of WWriterRaises: the exception leaves the call past the finally block
WWriterRaisesNoFinally(p) ==
  /\ wpc[p] \in {"write", "writing"}
  /\ wcall' = [wcall EXCEPT ![p].exc = TRUE]
  /\ wpc' = [wpc EXCEPT ![p] = "raised"]
  /\ UNCHANGED <<wfs, wcount>>
  /\ WFrame

\* line 112: the writer raises, before or after opening the temporary file
WWriterRaises(p) ==
  /\ wpc[p] \in {"write", "writing"}
  /\ wcall' = [wcall EXCEPT ![p].exc = TRUE]
  /\ wpc' = [wpc EXCEPT ![p] = "release"]
  /\ UNCHANGED <<wfs, wcount>>
  /\ WFrame

\* what the call remembers of a backup rename that failed
BakFailed == <<"failed">>

\* mutant of WBackup: a failed rename is not swallowed
WBackupFailureRaises(p) ==
  /\ wpc[p] = "backup"
  /\ IF wcall[p].enable_backup /\ Exists(wfs, WTarget)
     THEN \E bak_ok \in BOOLEAN :
            /\ wfs' = IF bak_ok THEN Replace(wfs, WTarget, BakPath(WTarget, now)) ELSE wfs
            /\ wcall' = [wcall EXCEPT ![p].bak_name =
                           IF bak_ok THEN BakPath(WTarget, now) ELSE BakFailed,
                         ![p].exc = ~bak_ok]
            /\ wpc' = [wpc EXCEPT ![p] = IF bak_ok THEN "replace" ELSE "release"]
     ELSE /\ UNCHANGED <<wfs, wcall>>
          /\ wpc' = [wpc EXCEPT ![p] = "replace"]
  /\ UNCHANGED wcount
  /\ WFrame

\* lines 115-121: the old file is renamed aside; a failure is swallowed.
\* bak_name stays empty when line 117 is not reached.
WBackup(p) ==
  /\ wpc[p] = "backup"
  /\ IF wcall[p].enable_backup /\ Exists(wfs, WTarget)
     THEN \E bak_ok \in BOOLEAN :
            /\ wfs' = IF bak_ok THEN Replace(wfs, WTarget, BakPath(WTarget, now)) ELSE wfs
            /\ wcall' = [wcall EXCEPT ![p].bak_name =
                           IF bak_ok THEN BakPath(WTarget, now) ELSE BakFailed]
     ELSE UNCHANGED <<wfs, wcall>>
  /\ wpc' = [wpc EXCEPT ![p] = "replace"]
  /\ UNCHANGED wcount
  /\ WFrame

\* line 124: os.replace(tmp_path, path)
WReplace(p) ==
  /\ wpc[p] = "replace"
  /\ wfs' = Replace(wfs, WTmp(p), WTarget)
  /\ wpc' = [wpc EXCEPT ![p] = "release"]
  /\ UNCHANGED <<wcall, wcount>>
  /\ WFrame

\* mutant of WRelease: the marker is removed whoever created it
WReleaseAlways(p) ==
  /\ wpc[p] = "release"
  /\ wfs' = IF Exists(wfs, LockPath(WTarget))
            THEN WithoutFile(wfs, LockPath(WTarget)) ELSE wfs
  /\ wpc' = [wpc EXCEPT ![p] = "cleanup"]
  /\ UNCHANGED <<wcall, wcount>>
  /\ WFrame

\* lines 126-127 and _release_lock
WRelease(p) ==
  /\ wpc[p] = "release"
  /\ wfs' = IF wcall[p].lock_acquired /\ Exists(wfs, LockPath(WTarget))
            THEN WithoutFile(wfs, LockPath(WTarget)) ELSE wfs
  /\ wpc' = [wpc EXCEPT ![p] = "cleanup"]
  /\ UNCHANGED <<wcall, wcount>>
  /\ WFrame

\* lines 128-132, then the call returns or the exception propagates
WCleanup(p) ==
  /\ wpc[p] = "cleanup"
  /\ wfs' = IF Exists(wfs, WTmp(p)) THEN WithoutFile(wfs, WTmp(p)) ELSE wfs
  /\ wpc' = [wpc EXCEPT ![p] = IF wcall[p].exc THEN "raised" ELSE "returned"]
  /\ UNCHANGED <<wcall, wcount>>
  /\ WFrame

\* the caller goes on to its next save; the locals of the call are gone
WNext(p) ==
  /\ wpc[p] \in {"returned", "raised"}
  /\ wpc' = [wpc EXCEPT ![p] = "idle"]
  /\ wcall' = [wcall EXCEPT ![p] = NoCall]
  /\ UNCHANGED <<wfs, wcount>>
  /\ WFrame

InCall(p) == wpc[p] \notin {"idle", "returned", "raised", "killed"}

\* the process is killed inside the call: nothing more of it runs
WKill(p) ==
  /\ InCall(p)
  /\ wpc' = [wpc EXCEPT ![p] = "killed"]
  /\ UNCHANGED <<wfs, wcall, wcount>>
  /\ WFrame

\* the program is started again after a kill
WRestart(p) ==
  /\ wpc[p] = "killed"
  /\ wpc' = [wpc EXCEPT ![p] = "idle"]
  /\ wcall' = [wcall EXCEPT ![p] = NoCall]
  /\ UNCHANGED <<wfs, wcount>>
  /\ WFrame

\* a statement of a call that has started
WBody(p) ==
  \/ WAcquire(p) \/ WAcquireTimeout(p) \/ WOpenTmp(p) \/ WWriteTmp(p)
  \/ WWriterRaises(p) \/ WBackup(p) \/ WReplace(p) \/ WRelease(p) \/ WCleanup(p)
  \/ WNext(p)

WStep(p) == WStart(p) \/ WBody(p)

TickWrite == Tick /\ UNCHANGED <<pureVars, segVars, writeVars, crawlVars, runVars>>

\* one process saving, that can be killed at any statement and started again
NextCrash == WStep("w1") \/ WKill("w1") \/ WRestart("w1") \/ TickWrite

SpecCrash == InitWrite /\ [][NextCrash]_vars

\* two processes saving the cache of the same source at the same time
NextLock == (\E p \in Writers : WStartSave(p) \/ WBody(p)) \/ TickWrite

SpecLock == InitWrite /\ [][NextLock]_vars

RECURSIVE Pick(_, _, _)
\* the subsequence of items at the positions in S, from position i on
Pick(items, S, i) ==
  IF i > Len(items) THEN <<>>
  ELSE (IF i \in S THEN <<items[i]>> ELSE <<>>) \o Pick(items, S, i + 1)

\* ----------------------------------------------------------------- the cache
RECURSIVE LStripSlash(_)
LStripSlash(s) == IF s # <<>> /\ Head(s) = "/" THEN LStripSlash(Tail(s)) ELSE s

RECURSIVE RStripSlash(_)
RStripSlash(s) ==
  IF s # <<>> /\ s[Len(s)] = "/" THEN RStripSlash(SubSeq(s, 1, Len(s) - 1)) ELSE s

\* str.strip("/")
StripSlash(s) == RStripSlash(LStripSlash(s))

RECURSIVE LastSegment(_)
\* s.split("/")[-1]: what follows the last "/"
LastSegment(s) ==
  IF s = <<>> \/ s[Len(s)] = "/" THEN <<>>
  ELSE LastSegment(SubSeq(s, 1, Len(s) - 1)) \o <<s[Len(s)]>>

\* split never returns an empty list, so "unknown" is never returned
extract_doulist_id(url) == LastSegment(StripSlash(Strip(url)))

\* os.path.join(cache_dir, f"doulist_{doulist_id}.json")
cache_file_path(doulist_id) == <<"cache_doulist/", "doulist_">> \o doulist_id \o <<".json">>

\* what json.dump writes for a record list
JsonOf(items) == [kind |-> "json", items |-> items]

\* a file json.load refuses
Garbage == [kind |-> "garbage", items |-> <<>>]

\* what json.load returns for the document `null`: Python's None, no list
JsonNull == <<[null |-> TRUE]>>

load_cache(files, doulist_id) ==
  LET path == cache_file_path(doulist_id)
  IN IF ~Exists(files, path) THEN <<>>
     ELSE IF files[path].kind = "json" THEN files[path].items
     ELSE <<>>

\* mutant of save_cache: the write happens, one record short
save_cache_skip_first(files, doulist_id, items, ts) ==
  AtomicWrite(files, cache_file_path(doulist_id),
              JsonOf(IF items = <<>> THEN items ELSE Tail(items)), TRUE, TRUE, ts)

\* Line 475, the call of _atomic_write, is indented into the body of the
\* nested _write_json, which nothing calls: save_cache computes the path,
\* defines the function and returns, and no file is written.
save_cache(files, doulist_id, items, ts) == files

\* ------------------------------------------------------ crawl_single_doulist
Retries == 10

\* f"{start_url}?start={page - 1}"; a page's "next" link is the url of page+1
PageUrl(start_url, page) == start_url \o <<"?start=">> \o Str(page - 1)

\* mutant of TagSource: the records are appended as parsed
TagSourceKeep(page_items, doulist_id) == page_items

\* it["source"] = doulist_id, for every record of the page
TagSource(page_items, doulist_id) ==
  [k \in 1..Len(page_items) |-> [page_items[k] EXCEPT !.source = doulist_id]]

\* os.path.join(output_dir, doulist_id, f"doulist_{doulist_id}_progress.xml")
ProgressPath(doulist_id) ==
  <<"rss_files/">> \o doulist_id \o <<"/", "doulist_">> \o doulist_id
    \o <<"_progress", ".xml">>

\* build_rss: one document, written through _atomic_write with backup
build_rss(files, items, output_file, ts) ==
  AtomicWrite(files, output_file, RssOf(items), TRUE, TRUE, ts)

\* mutant of StopsOnPage: an empty page that has a next link is passed over
StopsOnlyAtLastPage(page_items, next_url) == page_items = <<>> /\ next_url = None

\* line 502: `if not page_items: break`, whatever the page's next link
StopsOnPage(page_items, next_url) == page_items = <<>>

\* mutant of fetch_page: an empty text is returned where SystemExit is raised
FetchPageGivesUpQuietly(failures, answer) ==
  IF failures < Retries THEN "text" ELSE IF answer = "y" THEN "again" ELSE "empty"

RECURSIVE FetchLoop(_, _, _)
\* the while loop of fetch_page from the given attempt on, when the first
\* `failures` requests raise RequestException and `answer` is what the
\* operator types at the prompt: "text" is a returned page, "again" the
\* recursive call of line 155, "SystemExit" line 157
FetchLoop(attempt, failures, answer) ==
  IF attempt >= failures THEN "text"
  ELSE IF attempt + 1 < Retries THEN FetchLoop(attempt + 1, failures, answer)
  ELSE IF answer = "y" THEN "again" ELSE "SystemExit"

fetch_page(failures, answer) == FetchLoop(0, failures, answer)

\* --------------------------------------------------- crawl_multiple_doulists
DefaultChunkSize == 500

MergedPath == <<"rss_files/", "merged_all_doulists", ".xml">>
FilteredPath == <<"rss_filtered/", "merged_filtered", ".xml">>

\* mutant of ExtendRaw: the later source's records are put in front
PrependRaw(all_items_raw, items) == items \o all_items_raw

\* all_items_raw.extend(items)
ExtendRaw(all_items_raw, items) == all_items_raw \o items

\* lines 577-582
ExcludedIds(exclude_urls) ==
  {extract_doulist_id(exclude_urls[k]) :
     k \in {j \in 1..Len(exclude_urls) : exclude_urls[j] # <<>>}}

\* line 586
DropExcluded(items, excluded_ids) ==
  Pick(items, {k \in 1..Len(items) : items[k].source \notin excluded_ids}, 1)

\* mutant of MergedResult: duplicates are dropped before the excluded sources
MergedResultDedupFirst(all_items_raw, exclude_urls, mode) ==
  DropExcluded(deduplicate_items(all_items_raw, mode), ExcludedIds(exclude_urls))

\* lines 576-590: all_items_dedup
MergedResult(all_items_raw, exclude_urls, mode) ==
  deduplicate_items(DropExcluded(all_items_raw, ExcludedIds(exclude_urls)), mode)

\* mutant of Filtering: the filter runs whether or not a bound is given
FilteringAlways(min_year, max_year) == TRUE

\* line 606: min_year is not None or max_year is not None
Filtering(min_year, max_year) == min_year # {} \/ max_year # {}

\* ------------------------------------------------------------ the crawl runs
\* pages the remote list has before it answers with an empty page
MaxPage == 2
\* largest start_page configured
MaxStartPage == 2
\* times the program is started on the same directories
MaxRuns == 2

Raw(t, y, l) == [title |-> t, year |-> y, link |-> l, source |-> None]

\* what parse_page returns for a page: fields already trimmed, source not set
RA == Raw(<<"A">>, <<"7">>, <<"u">>)
RA2 == Raw(<<"A">>, <<"7">>, <<"v">>)
RB == Raw(<<"B">>, <<"1", "2">>, <<"u">>)

PageChoices == {<<>>, <<RA, RB>>, <<RA2>>}

L1 == <<"d", "/", "1", "/">>
L1b == <<"x", "/", "1">>
L2 == <<" ", "d", "/", "2">>
Blank == <<" ">>

UrlLists == {<<L1, L2>>, <<L2, Blank, L1b>>}

ExcludeLists == {<<>>, <<L1b>>, <<<<>>, L2>>}

\* (min_year, max_year)
MergeBounds == {<<{}, {}>>, <<{12}, {}>>, <<{7}, {12}>>}

\* cache directories left by earlier runs: none, a good file, a damaged one
InitialDisks ==
  { NoFiles,
    WithFile(NoFiles, cache_file_path(<<"1">>),
             JsonOf(<<[RB EXCEPT !.source = <<"1">>]>>)),
    WithFile(WithFile(NoFiles, cache_file_path(<<"1">>), Garbage),
             cache_file_path(<<"2">>), JsonOf(<<RA, [RA2 EXCEPT !.source = <<"2">>]>>)),
    WithFile(NoFiles, cache_file_path(<<"1">>), JsonOf(JsonNull)) }

Init ==
  /\ cfg \in {[urls |-> u, start_page |-> sp] : u \in UrlLists, sp \in 1..MaxStartPage}
  /\ disk \in InitialDisks
  /\ remote = NoFiles
  /\ pc = "for"
  /\ idx = 1
  /\ raw = <<>>
  /\ cs = NoLocals
  /\ run = 1
  /\ merge = NoMerge
  /\ hist = NoHist
  /\ now = 0
  /\ PureIdle
  /\ SegIdle
  /\ WriteIdle
  /\ RunsIdle

CFrame == UNCHANGED <<pureVars, segVars, writeVars, runVars>>

\* lines 563-565: a blank url is skipped
ForSkip ==
  /\ pc = "for"
  /\ idx <= Len(cfg.urls)
  /\ Strip(cfg.urls[idx]) = <<>>
  /\ idx' = idx + 1
  /\ UNCHANGED <<cfg, disk, remote, pc, raw, cs, run, merge, hist, now>>
  /\ CFrame

\* lines 566-571 and 487-494: crawl_single_doulist is entered (PRIMED)
ForCrawl ==
  /\ pc = "for"
  /\ idx <= Len(cfg.urls)
  /\ Strip(cfg.urls[idx]) # <<>>
  /\ LET start_url == Strip(cfg.urls[idx])
         doulist_id == extract_doulist_id(start_url)
         all_items == load_cache(disk, doulist_id)
     IN /\ all_items # JsonNull
        /\ cs' = [NoLocals EXCEPT !.doulist_id = doulist_id,
                                 !.all_items = all_items,
                                 !.cached = all_items,
                                 !.url = PageUrl(start_url, cfg.start_page),
                                 !.page = cfg.start_page]
  /\ hist' = [hist EXCEPT !.started = @ + 1]
  /\ pc' = "fetch"
  /\ UNCHANGED <<cfg, disk, remote, idx, raw, run, merge, now>>
  /\ CFrame

\* lines 487-488: load_cache has returned None and len(all_items) raises
\* TypeError, which nothing catches
ForCrawlTypeError ==
  /\ pc = "for"
  /\ idx <= Len(cfg.urls)
  /\ Strip(cfg.urls[idx]) # <<>>
  /\ LET doulist_id == extract_doulist_id(Strip(cfg.urls[idx]))
     IN /\ load_cache(disk, doulist_id) = JsonNull
        /\ cs' = [NoLocals EXCEPT !.doulist_id = doulist_id]
  /\ hist' = [hist EXCEPT !.started = @ + 1, !.raised = "TypeError"]
  /\ pc' = "exit"
  /\ UNCHANGED <<cfg, disk, remote, idx, raw, run, merge, now>>
  /\ CFrame

\* the page the remote site serves for the url being fetched
Served(url, page) ==
  IF url \in DOMAIN remote THEN {remote[url]}
  ELSE IF page > MaxPage THEN {[items |-> <<>>, next |-> None]}
  ELSE {[items |-> it, next |-> nx] :
          it \in PageChoices,
          nx \in {None, PageUrl(Strip(cfg.urls[idx]), page + 1)}}

\* fetch_page returns the page, after fewer failed requests than Retries or
\* after the operator asked for further rounds of retries
FetchOk ==
  /\ pc = "fetch"
  /\ \E failures \in 0..Retries, answer \in {"y", "n"} :
       fetch_page(failures, answer) = "text"
  /\ \E page \in Served(cs.url, cs.page) :
       /\ remote' = WithFile(remote, cs.url, page)
       /\ cs' = [cs EXCEPT !.html = page, !.fetches = @ + 1]
  /\ pc' = "parse"
  /\ UNCHANGED <<cfg, disk, idx, raw, run, merge, hist, now>>
  /\ CFrame

\* fetch_page ends without a page of the site: every request failed and the
\* operator declined to go on, so SystemExit, which no caller catches, ends
\* the program (a fetch_page that returned an empty text instead would hand
\* the parser a page without records)
FetchFatal ==
  /\ pc = "fetch"
  /\ \E failures \in 0..Retries, answer \in {"y", "n"} :
       LET result == fetch_page(failures, answer)
       IN /\ result \notin {"text", "again"}
          /\ pc' = (IF result = "SystemExit" THEN "exit" ELSE "parse")
          /\ cs' = IF result = "SystemExit"
                   THEN [cs EXCEPT !.fetches = @ + 1]
                   ELSE [cs EXCEPT !.fetches = @ + 1,
                                   !.html = [items |-> <<>>, next |-> None]]
  /\ hist' = [hist EXCEPT !.fatal = TRUE]
  /\ UNCHANGED <<cfg, disk, remote, idx, raw, run, merge, now>>
  /\ CFrame

\* lines 499-503: the page is parsed; an empty page ends the loop
Parse ==
  /\ pc = "parse"
  /\ cs' = [cs EXCEPT !.page_items = cs.html.items,
                      !.empty_seen = (cs.html.items = <<>>)]
  /\ pc' = IF StopsOnPage(cs.html.items, cs.html.next) THEN "return" ELSE "accumulate"
  /\ UNCHANGED <<cfg, disk, remote, idx, raw, run, merge, hist, now>>
  /\ CFrame

\* mutant of Accumulate: the next page is fetched while this one is unsaved
AccumulateThenFetch ==
  /\ pc = "accumulate"
  /\ cs' = [cs EXCEPT !.all_items = @ \o TagSource(cs.page_items, cs.doulist_id),
                      !.pages = Append(@, cs.page_items)]
  /\ pc' = IF cs.html.next = None THEN "save" ELSE "fetch"
  /\ UNCHANGED <<cfg, disk, remote, idx, raw, run, merge, hist, now>>
  /\ CFrame

\* lines 506-512: the page's records are tagged and appended
Accumulate ==
  /\ pc = "accumulate"
  /\ cs' = [cs EXCEPT !.all_items = @ \o TagSource(cs.page_items, cs.doulist_id),
                      !.pages = Append(@, cs.page_items)]
  /\ pc' = "save"
  /\ UNCHANGED <<cfg, disk, remote, idx, raw, run, merge, hist, now>>
  /\ CFrame

\* line 515: save_cache
Save ==
  /\ pc = "save"
  /\ disk' = save_cache(disk, cs.doulist_id, cs.all_items, now)
  /\ cs' = [cs EXCEPT !.saves = @ + 1]
  /\ pc' = "progress"
  /\ UNCHANGED <<cfg, remote, idx, raw, run, merge, hist, now>>
  /\ CFrame

\* lines 517-526: the progress document
Progress ==
  /\ pc = "progress"
  /\ disk' = build_rss(disk, cs.all_items, ProgressPath(cs.doulist_id), now)
  /\ cs' = [cs EXCEPT !.progress = @ + 1]
  /\ pc' = "advance"
  /\ UNCHANGED <<cfg, remote, idx, raw, run, merge, hist, now>>
  /\ CFrame

\* lines 528-540: no next link ends the loop; otherwise sleep, then next page
Advance ==
  /\ pc = "advance"
  /\ IF cs.html.next = None
     THEN /\ pc' = "return"
          /\ UNCHANGED <<cs, now>>
     ELSE /\ pc' = "fetch"
          /\ cs' = [cs EXCEPT !.url = cs.html.next, !.page = @ + 1]
          /\ now' = now + 1
  /\ UNCHANGED <<cfg, disk, remote, idx, raw, run, merge, hist>>
  /\ CFrame

\* lines 541 and 572: all_items is returned and joined to all_items_raw
Return ==
  /\ pc = "return"
  /\ raw' = ExtendRaw(raw, cs.all_items)
  /\ hist' = [hist EXCEPT !.results = Append(@, cs.all_items)]
  /\ idx' = idx + 1
  /\ pc' = "for"
  /\ UNCHANGED <<cfg, disk, remote, cs, run, merge, now>>
  /\ CFrame

\* lines 574-622: exclusion, deduplication, the merged documents and, with a
\* year bound, the filtered documents
MergeWith(excludes, modes, year_bounds) ==
  /\ pc = "for"
  /\ idx > Len(cfg.urls)
  /\ \E exclude_urls \in excludes, mode \in modes, bounds \in year_bounds :
       LET min_year == bounds[1]
           max_year == bounds[2]
           all_items_dedup == MergedResult(raw, exclude_urls, mode)
           merged == build_rss_segmented(disk, all_items_dedup, MergedPath,
                                         DefaultChunkSize, now)
           filtering == Filtering(min_year, max_year)
           raises == filtering /\ FilterRaises(all_items_dedup)
           filtered_items == filter_items_by_year(all_items_dedup, min_year, max_year)
       IN /\ merge' = [done |-> TRUE, exclude_urls |-> exclude_urls, mode |-> mode,
                       min_year |-> min_year, max_year |-> max_year,
                       all_items_dedup |-> all_items_dedup,
                       filtered |-> filtering /\ ~raises,
                       filtered_items |-> IF filtering /\ ~raises
                                          THEN filtered_items ELSE <<>>]
          /\ disk' = IF filtering /\ ~raises
                     THEN build_rss_segmented(merged, filtered_items, FilteredPath,
                                              DefaultChunkSize, now)
                     ELSE merged
          /\ hist' = [hist EXCEPT !.segmented = IF filtering /\ ~raises THEN 2 ELSE 1]
          /\ pc' = IF raises THEN "exit" ELSE "finished"
  /\ UNCHANGED <<cfg, remote, idx, raw, cs, run, now>>
  /\ CFrame

Merge == MergeWith(ExcludeLists, Modes, MergeBounds)

\* the merge with nothing excluded, the default mode and no year bound
MergePlain == MergeWith({<<>>}, {"title_year"}, {<<{}, {}>>})

\* the program, having finished, is started again with the same urls and
\* start page, on the directories and against the remote lists as they are
Rerun ==
  /\ pc = "finished"
  /\ run < MaxRuns
  /\ run' = run + 1
  /\ pc' = "for"
  /\ idx' = 1
  /\ raw' = <<>>
  /\ cs' = NoLocals
  /\ merge' = NoMerge
  /\ hist' = [NoHist EXCEPT !.first =
                IF ~hist.first.done
                THEN [done |-> TRUE, results |-> hist.results,
                      caches |-> [k \in 1..Len(cfg.urls) |->
                                    load_cache(disk, extract_doulist_id(cfg.urls[k]))]]
                ELSE hist.first]
  /\ now' = now + 1
  /\ UNCHANGED <<cfg, disk, remote>>
  /\ CFrame

Crawl ==
  \/ ForSkip \/ ForCrawl \/ ForCrawlTypeError \/ FetchOk \/ FetchFatal \/ Parse
  \/ Accumulate \/ Save \/ Progress \/ Advance \/ Return

\* one run of crawl_multiple_doulists
Next == Crawl \/ Merge

Spec == Init /\ [][Next]_vars

\* the program run again and again without a change of configuration
NextResume == Crawl \/ MergePlain \/ Rerun

SpecResume == Init /\ [][NextResume]_vars

\* ------------------------------- two runs crawling the same source at once
\* the source both runs are given
RunUrl == Strip(L1)

\* the page of the remote list a run gets for page number k
RunPage(k) ==
  IF k > MaxPage THEN <<>> ELSE IF k % 2 = 1 THEN <<RA, RB>> ELSE <<RA2>>

InitRuns ==
  /\ rpc = [r \in Runs |-> "load"]
  /\ rloc \in {[r \in Runs |-> [NoRun EXCEPT !.start_page = sp[r]]] :
                 sp \in [Runs -> 1..MaxStartPage]}
  /\ disk \in {NoFiles,
               WithFile(NoFiles, cache_file_path(extract_doulist_id(RunUrl)),
                        JsonOf(<<[RB EXCEPT !.source = <<"1">>]>>))}
  /\ cfg = [urls |-> <<>>, start_page |-> 1]
  /\ remote = NoFiles
  /\ pc = "off"
  /\ idx = 1
  /\ raw = <<>>
  /\ cs = NoLocals
  /\ run = 1
  /\ merge = NoMerge
  /\ hist = NoHist
  /\ now = 0
  /\ PureIdle
  /\ SegIdle
  /\ WriteIdle

RFrame ==
  UNCHANGED <<pureVars, segVars, writeVars, cfg, remote, pc, idx, raw, cs, run, merge, hist>>

\* lines 487-494: the cache is loaded
RLoad(r) ==
  /\ rpc[r] = "load"
  /\ rloc' = [rloc EXCEPT ![r].all_items = load_cache(disk, extract_doulist_id(RunUrl)),
                          ![r].page = rloc[r].start_page]
  /\ rpc' = [rpc EXCEPT ![r] = "fetch"]
  /\ UNCHANGED <<disk, now>>
  /\ RFrame

\* lines 498-512: a page is fetched and parsed; an empty page ends the loop,
\* the records of any other are tagged and appended
RFetch(r) ==
  /\ rpc[r] = "fetch"
  /\ LET page_items == RunPage(rloc[r].page)
     IN IF StopsOnPage(page_items, None)
        THEN /\ rpc' = [rpc EXCEPT ![r] = "done"]
             /\ rloc' = [rloc EXCEPT ![r].page_items = page_items]
        ELSE /\ rpc' = [rpc EXCEPT ![r] = "save"]
             /\ rloc' = [rloc EXCEPT
                          ![r].page_items = page_items,
                          ![r].all_items =
                            @ \o TagSource(page_items, extract_doulist_id(RunUrl))]
  /\ UNCHANGED <<disk, now>>
  /\ RFrame

\* line 515: save_cache(cache_dir, doulist_id, all_items)
RSave(r) ==
  /\ rpc[r] = "save"
  /\ disk' = save_cache(disk, extract_doulist_id(RunUrl), rloc[r].all_items, now)
  /\ rloc' = [rloc EXCEPT ![r].saved = rloc[r].all_items]
  /\ rpc' = [rpc EXCEPT ![r] = "progress"]
  /\ UNCHANGED now
  /\ RFrame

\* lines 517-541: the progress document, then the end of the list or the
\* delay before the next page
RProgress(r) ==
  /\ rpc[r] = "progress"
  /\ disk' = build_rss(disk, rloc[r].all_items,
                       ProgressPath(extract_doulist_id(RunUrl)), now)
  /\ IF rloc[r].page >= MaxPage
     THEN /\ rpc' = [rpc EXCEPT ![r] = "done"]
          /\ UNCHANGED <<rloc, now>>
     ELSE /\ rpc' = [rpc EXCEPT ![r] = "fetch"]
          /\ rloc' = [rloc EXCEPT ![r].page = @ + 1]
          /\ now' = now + 1
  /\ RFrame

NextRuns == \E r \in Runs : RLoad(r) \/ RFetch(r) \/ RSave(r) \/ RProgress(r)

SpecRuns == InitRuns /\ [][NextRuns]_vars

\* ================================================== claims on pure functions
\* C4: the output of deduplicate_items has no two records with the same dedup
\* key, and it is the input with some positions removed, each removed position
\* having an earlier position with the same key that is kept.
C4_DedupCorrect ==
  pcall.op = "dedup" =>
    LET out == pres.out
        mode == pcall.mode
    IN /\ \A i, j \in 1..Len(out) :
            i < j => DedupKey(out[i], mode) # DedupKey(out[j], mode)
       /\ \E S \in SUBSET (1..Len(pin)) :
            /\ Pick(pin, S, 1) = out
            /\ \A i \in (1..Len(pin)) \ S :
                 \E j \in S : j < i /\ DedupKey(pin[j], mode) = DedupKey(pin[i], mode)

\* a call that discarded a record and kept two
C4_Witness ==
  /\ pcall.op = "dedup"
  /\ Len(pres.out) = 2
  /\ Len(pin) = 3
  /\ DedupKey(pin[1], pcall.mode) # DedupKey(pin[2], pcall.mode)

\* what the claim calls a year that parses: decimal digits, once trimmed
YearParses(m) == IsDecimal(Strip(OrEmpty(m.year)))

YearInBounds(m, min_year, max_year) ==
  LET y == IntOf(Strip(OrEmpty(m.year)))
  IN /\ \A lo \in min_year : lo <= y
     /\ \A hi \in max_year : y <= hi

\* C7: filter_items_by_year keeps, in their order, exactly the records whose
\* year parses to an integer within every active bound, and drops the records
\* whose year is absent or does not parse.
C7_FilterCorrect ==
  (pcall.op = "filter" /\ (pcall.min_year # {} \/ pcall.max_year # {})) =>
    /\ ~pres.raised
    /\ pres.out =
         Pick(pin, {i \in 1..Len(pin) :
                      /\ YearParses(pin[i])
                      /\ YearInBounds(pin[i], pcall.min_year, pcall.max_year)}, 1)

\* C8: after build_rss_segmented on N >= 1 records with chunk size C, the
\* manifest lists ceil(N/C) chunks, every position 1..N lies in exactly one
\* chunk's range and no range leaves 1..N, and chunk i is the file holding
\* records (i-1)*C+1 .. min(i*C, N), its count being end_item - start_item + 1.
C8_ChunkCoverage ==
  (slast.called /\ slast.items # <<>>) =>
    LET items == slast.items
        N == Len(items)
        C == slast.chunk_size
        K == CHOOSE k \in 1..N : k * C >= N /\ (k - 1) * C < N
        man == sfs[ManifestPath(SegTarget)]
    IN /\ man.total_items = N
       /\ Len(man.parts) = K
       /\ \A pos \in 1..N :
            Cardinality({i \in 1..Len(man.parts) :
               man.parts[i].start_item <= pos /\ pos <= man.parts[i].end_item}) = 1
       /\ \A i \in 1..Len(man.parts) :
            LET part == man.parts[i]
                file == <<SegTarget[1]>> \o part.file
            IN /\ part.index = i /\ part.of = K
               /\ 1 <= part.start_item /\ part.start_item <= part.end_item
               /\ part.end_item <= N
               /\ part.count = part.end_item - part.start_item + 1
               /\ file = PartPath(SegTarget, i, K)
               /\ Exists(sfs, file)
               /\ sfs[file].items = SubSeq(items, (i - 1) * C + 1, Min(i * C, N))

\* five records in chunks of two: three chunks, the last one short
C8_Witness ==
  /\ slast.called
  /\ Len(slast.items) = 5
  /\ slast.chunk_size = 2
  /\ Exists(sfs, PartPath(SegTarget, 3, 3))
  /\ sfs[PartPath(SegTarget, 3, 3)].items = <<slast.items[5]>>

\* ================================================= claims on _atomic_write
\* C2: a process killed inside a save with backup enabled leaves the target
\* holding what it held before the call (absent only if it was absent) or the
\* complete new content.
C2_CrashSafe ==
  \A p \in Writers :
    (wpc[p] = "killed" /\ wcall[p].enable_backup) =>
      Content(wfs, WTarget) \in {wcall[p].pre, wcall[p].content}

\* ======================================================= claims on the crawl
RECURSIVE Flatten(_)
\* the lists of a list, joined in order
Flatten(lists) == IF lists = <<>> THEN <<>> ELSE Head(lists) \o Flatten(Tail(lists))

\* the accumulated sequence: what the cache held at the start of the crawl,
\* then every processed page's records with the source tag
Accumulated ==
  cs.cached \o Flatten([k \in 1..Len(cs.pages) |-> TagSource(cs.pages[k], cs.doulist_id)])

\* C1: once a non-empty page has been processed and saved, loading the
\* source's cache returns the full accumulated sequence.
C1_CachePersisted ==
  (pc \in {"progress", "advance"}) =>
    /\ cs.all_items = Accumulated
    /\ load_cache(disk, cs.doulist_id) = cs.all_items

KeySet(items, mode) == {DedupKey(items[k], mode) : k \in 1..Len(items)}

\* C3: when a run that followed a finished run with the same urls and start
\* page and an unchanged remote list has finished, each source's cache, and the
\* merge of what the sources returned, hold after deduplication the same
\* record keys as at the end of the first run: none lost, none new.
C3_IdempotentResume ==
  (pc = "finished" /\ hist.first.done) =>
    \A mode \in Modes :
      /\ \A k \in 1..Len(cfg.urls) :
           KeySet(deduplicate_items(load_cache(disk, extract_doulist_id(cfg.urls[k])), mode), mode)
             = KeySet(deduplicate_items(hist.first.caches[k], mode), mode)
      /\ KeySet(deduplicate_items(Flatten(hist.results), mode), mode)
           = KeySet(deduplicate_items(Flatten(hist.first.results), mode), mode)

\* a second run has finished after fetching a page of two records again
C3_Witness ==
  /\ pc = "finished"
  /\ hist.first.done
  /\ run = 2
  /\ \E k \in 1..Len(hist.results) :
       /\ Len(hist.results[k]) >= 2
       /\ hist.results[k] = hist.first.results[k]
       /\ hist.results[k][1].source # None

\* C5: the merged result holds no record tagged with the id of an excluded
\* locator, and every key of a record of a source that is not excluded is
\* kept, whatever excluded records with that key came before it.
C5_ExclusionBeforeDedup ==
  merge.done =>
    LET all == Flatten(hist.results)
        excluded == ExcludedIds(merge.exclude_urls)
        out == merge.all_items_dedup
    IN /\ \A k \in 1..Len(out) : out[k].source \notin excluded
       /\ \A k \in 1..Len(all) :
            all[k].source \notin excluded =>
              \E j \in 1..Len(out) :
                /\ DedupKey(out[j], merge.mode) = DedupKey(all[k], merge.mode)
                /\ out[j].source \notin excluded

\* a record of an excluded source comes before a kept record with its key
C5_Witness ==
  /\ merge.done
  /\ LET all == Flatten(hist.results)
         excluded == ExcludedIds(merge.exclude_urls)
     IN \E j, k \in 1..Len(all) :
          /\ j < k
          /\ all[j].source \in excluded
          /\ all[k].source \notin excluded
          /\ DedupKey(all[j], merge.mode) = DedupKey(all[k], merge.mode)
          /\ \E i \in 1..Len(merge.all_items_dedup) : merge.all_items_dedup[i] = all[k]

RECURSIVE IsSubseq(_, _)
\* a is b with some positions removed
IsSubseq(a, b) ==
  IF a = <<>> THEN TRUE
  ELSE IF b = <<>> THEN FALSE
  ELSE IF Head(a) = Head(b) THEN IsSubseq(Tail(a), Tail(b))
  ELSE IsSubseq(a, Tail(b))

\* where a record first stands in a list
FirstIndex(items, m) == CHOOSE k \in 1..Len(items) :
  items[k] = m /\ \A j \in 1..(k - 1) : items[j] # m

\* C6: the merged result is the concatenation of what the sources returned,
\* in the order of urls, with positions removed; of two kept records the one
\* that stands first in the concatenation stands first in the result.
C6_MergeOrder ==
  merge.done =>
    LET all == Flatten(hist.results)
        out == merge.all_items_dedup
    IN /\ IsSubseq(out, all)
       /\ \A i, j \in 1..Len(out) :
            i < j => FirstIndex(all, out[i]) < FirstIndex(all, out[j])

\* records of two sources are kept and a duplicate was dropped
C6_Witness ==
  /\ merge.done
  /\ Len(hist.results) = 2
  /\ Len(merge.all_items_dedup) < Len(Flatten(hist.results))
  /\ hist.results[1] # <<>>
  /\ hist.results[2] # <<>>
  /\ \E i, j \in 1..Len(merge.all_items_dedup) :
       /\ i < j
       /\ merge.all_items_dedup[i] = hist.results[1][Len(hist.results[1])]
       /\ merge.all_items_dedup[j] = hist.results[2][Len(hist.results[2])]

\* C9: once a fetched page has no records the crawl of the source is over:
\* nothing of the source is fetched after it, the page is neither saved nor
\* given a progress document, and what the crawl returns is the sequence
\* accumulated before it, whether or not the page had a next link.
C9_EmptyPageStops ==
  cs.empty_seen =>
    /\ pc \in {"return", "for", "finished", "exit"}
    /\ cs.fetches = Len(cs.pages) + 1
    /\ cs.saves = Len(cs.pages)
    /\ cs.progress = Len(cs.pages)
    /\ cs.all_items = Accumulated
    /\ pc # "return" => hist.results[Len(hist.results)] = Accumulated

\* the crawl has returned after an empty second page that had a next link
C9_Witness ==
  /\ cs.empty_seen
  /\ pc = "for"
  /\ cs.html.next # None
  /\ Len(cs.pages) = 1
  /\ hist.results[Len(hist.results)] = Accumulated

\* the merged and filtered documents on a disk
OutputDocs(files) ==
  {path \in DOMAIN files :
     SubSeq(path, 1, 2) \in {SplitBase(MergedPath), SplitBase(FilteredPath)}}

\* C10: when fetch_page gives up, the program is left at once: the source has
\* not returned, no later source has been entered, and the run has written no
\* merged or filtered document.
C10_FetchFailureFatal ==
  hist.fatal =>
    /\ pc = "exit"
    /\ ~merge.done
    /\ hist.segmented = 0
    /\ OutputDocs(disk) = {}
    /\ Len(hist.results) = hist.started - 1
    /\ hist.started = Cardinality({k \in 1..idx : Strip(cfg.urls[k]) # <<>>})
    /\ ~ENABLED Next

\* fetch_page gave up on the second page of the first of two sources
C10_Witness ==
  /\ hist.fatal
  /\ pc = "exit"
  /\ idx < Len(cfg.urls)
  /\ Len(cs.pages) = 1
  /\ cs.fetches = 2

\* ------------------------------------------------- claims on the lock marker
\* process p is between a successful _acquire_lock and _release_lock
Holding(p) ==
  /\ wcall[p].enable_lock
  /\ wcall[p].lock_acquired
  /\ wpc[p] \in {"write", "writing", "backup", "replace", "release"}

\* C11: with locking enabled, two processes saving the same target are never
\* both between a successful lock acquisition and the release of the marker.
C11_MutualExclusion ==
  \A p \in Writers : \A q \in Writers \ {p} : ~(Holding(p) /\ Holding(q))

\* one process is about to rename the old file while the other polls the marker
C11_Witness ==
  /\ Holding("w2")
  /\ wpc["w2"] = "backup"
  /\ wpc["w1"] = "acquire"
  /\ wcall["w1"].enable_lock

\* process p is in a call whose lock acquisition has not succeeded
Unlocked(p) ==
  /\ wpc[p] \in {"acquire", "release", "cleanup", "raised"}
  /\ wcall[p].enable_lock
  /\ ~wcall[p].lock_acquired

\* C12: a lock-enabled save that times out on the lock raises, and none of
\* its steps changes a file: the target, the backups and the marker of the
\* other process are as they were, and it leaves no temporary file.
C12_LockTimeoutHarmless ==
  /\ [](\A p \in Writers :
          (Unlocked(p) /\ wpc[p] = "raised") =>
            /\ wcall[p].exc
            /\ ~Exists(wfs, WTmp(p))
            /\ wcall[p].bak_name = <<>>)
  /\ [][\A p \in Writers :
          (Unlocked(p) /\ wpc'[p] # wpc[p] /\ ~wcall'[p].lock_acquired) =>
            wfs' = wfs]_vars

\* the call has failed and the marker of the process in the section is there
C12_Witness ==
  /\ Unlocked("w1")
  /\ wpc["w1"] = "raised"
  /\ Content(wfs, LockPath(WTarget)) = "w2"
  /\ Holding("w2")

\* -------------------------------------- more claims on build_rss_segmented
\* C13: a call of build_rss_segmented with no records writes and replaces no
\* file: the chunk files, the manifest and their backups are as they were.
C13_EmptyWritesNothing ==
  [][(scalls' = scalls + 1 /\ slast'.items = <<>>) => sfs' = sfs]_vars

\* two records were written, then a call with none left them in place
C13_Witness ==
  /\ scalls = 2
  /\ slast.called
  /\ slast.items = <<>>
  /\ Exists(sfs, ManifestPath(SegTarget))
  /\ sfs[ManifestPath(SegTarget)].total_items = 2

\* the name the target carries for chunk i of K
PartName(i, K) ==
  <<"rss_files/", "merged_all_doulists", "_part_">> \o Str(i) \o <<"_of_">> \o Str(K)
    \o <<".xml">>

\* f is g with a backup suffix
IsBackupOf(f, g) ==
  /\ Len(f) > Len(g) + 1
  /\ SubSeq(f, 1, Len(g)) = g
  /\ f[Len(g) + 1] = ".bak."

FilteredFiles(files) == {f \in DOMAIN files : f[1] = FilteredPath[1]}

\* the records of a document set that fits one chunk, none when not written
DocItems(files, output_file) ==
  IF Exists(files, PartPath(output_file, 1, 1))
  THEN files[PartPath(output_file, 1, 1)].items ELSE <<>>

\* C15: a file under the filtered-output root exists only after a merge with
\* at least one year bound; with neither bound the merge writes the merged
\* document set with all_items_dedup unfiltered and nothing else, and with
\* a bound it also writes the filtered records as the filtered document set.
C15_FilteredOnlyWithBound ==
  LET unbounded == merge.done /\ merge.min_year = {} /\ merge.max_year = {}
  IN /\ (~merge.done \/ unbounded) => FilteredFiles(disk) = {}
     /\ merge.done => DocItems(disk, MergedPath) = merge.all_items_dedup
     /\ (merge.done /\ ~unbounded /\ pc = "finished") =>
          /\ merge.filtered_items =
               filter_items_by_year(merge.all_items_dedup, merge.min_year, merge.max_year)
          /\ DocItems(disk, FilteredPath) = merge.filtered_items

\* a merge with no bound has written two records and no filtered document
C15_Witness ==
  /\ merge.done
  /\ merge.min_year = {}
  /\ merge.max_year = {}
  /\ Len(merge.all_items_dedup) = 2
  /\ DocItems(disk, MergedPath) = merge.all_items_dedup
  /\ FilteredFiles(disk) = {}

\* ------------------------------------------------------- claims on the cache
\* the cache file of the source is there and holds a list of records
CacheIntact(files, doulist_id) ==
  LET path == cache_file_path(doulist_id)
  IN /\ Exists(files, path)
     /\ files[path].kind = "json"
     /\ files[path].items # JsonNull

\* C16: when the cache file of a source is absent or does not hold a list of
\* records, the crawl of the source is entered with the empty sequence load_cache
\* returned, and no run ends in an exception because of what a cache file holds.
C16_CorruptCacheMasked ==
  /\ hist.raised # "TypeError"
  /\ (cs.doulist_id # <<>> /\ ~CacheIntact(disk, cs.doulist_id)) =>
       /\ load_cache(disk, cs.doulist_id) = <<>>
       /\ cs.cached = <<>>

\* ------------------------------------------- more claims on _atomic_write
\* C17: when the writer of a save that holds the lock raises, the call ends
\* with the exception, the marker and the temporary file are gone, no backup
\* name was used and the target holds what it held before the call.
C17_WriterFailureCleansUp ==
  \A p \in Writers :
    (wpc[p] = "raised" /\ wcall[p].enable_lock /\ wcall[p].lock_acquired) =>
      /\ wcall[p].exc
      /\ ~Exists(wfs, LockPath(WTarget))
      /\ ~Exists(wfs, WTmp(p))
      /\ wcall[p].bak_name = <<>>
      /\ Content(wfs, WTarget) = wcall[p].pre

\* the writer raised in a locked save with backup over an existing file
C17_Witness ==
  /\ wpc["w1"] = "raised"
  /\ wcall["w1"].lock_acquired
  /\ wcall["w1"].enable_backup
  /\ wcall["w1"].pre = "old"
  /\ Content(wfs, WTarget) = "old"

\* C18: a save with backup enabled over an existing file returns with the new
\* content in the target whether the backup rename succeeded or failed; when
\* it succeeded the backup path holds the prior content; a failed rename
\* never makes the call raise.
C18_BackupBestEffort ==
  \A p \in Writers :
    /\ (wpc[p] = "returned" /\ wcall[p].enable_backup /\ wcall[p].pre # "") =>
         /\ wcall[p].bak_name # <<>>
         /\ Content(wfs, WTarget) = wcall[p].content
         /\ wcall[p].bak_name # BakFailed =>
              Content(wfs, wcall[p].bak_name) = wcall[p].pre
    /\ wpc[p] = "raised" => wcall[p].bak_name = <<>>

\* the rename of the old file failed and the new content is in place
C18_Witness ==
  /\ wpc["w1"] = "returned"
  /\ wcall["w1"].enable_backup
  /\ wcall["w1"].pre = "old"
  /\ wcall["w1"].bak_name = BakFailed
  /\ Content(wfs, WTarget) = wcall["w1"].content

\* ------------------------------------------------- more claims on the crawl
\* C19: a page is fetched only when every page fetched before it in the
\* source has been parsed, appended, saved and given its progress document,
\* in that order, and a source is entered only when every source entered
\* before it has returned.
C19_StrictlySequential ==
  /\ cs.progress <= cs.saves
  /\ cs.saves <= Len(cs.pages)
  /\ Len(cs.pages) <= cs.fetches
  /\ cs.fetches <= cs.progress + 1
  /\ pc = "fetch" =>
       /\ cs.progress = cs.fetches
       /\ hist.started = Len(hist.results) + 1
  /\ pc = "for" => hist.started = Len(hist.results)
  /\ Len(hist.results) <= hist.started
  /\ hist.started <= Len(hist.results) + 1

\* the second page of the second source is about to be fetched
C19_Witness ==
  /\ pc = "fetch"
  /\ Len(hist.results) = 1
  /\ hist.started = 2
  /\ cs.fetches = 1
  /\ cs.saves = 1
  /\ cs.progress = 1

\* a is a prefix of b
IsPrefix(a, b) == Len(a) <= Len(b) /\ SubSeq(b, 1, Len(a)) = a

\* C20: during the crawl of a source all_items is what load_cache returned
\* followed by the records of the processed pages in page-then-position
\* order, each carrying the id derived from the source's url as its source;
\* no step of the crawl removes or changes a record already in all_items;
\* and what the crawl returns is that sequence.
C20_AppendOnly ==
  /\ [](cs.doulist_id # <<>> =>
          LET parsed == Flatten(cs.pages)
              n == Len(cs.cached)
          IN /\ Len(cs.all_items) = n + Len(parsed)
             /\ SubSeq(cs.all_items, 1, n) = cs.cached
             /\ \A k \in 1..Len(parsed) :
                  /\ cs.all_items[n + k].source = cs.doulist_id
                  /\ [cs.all_items[n + k] EXCEPT !.source = None] = parsed[k]
             /\ pc \in {"fetch", "parse", "accumulate", "save", "progress",
                         "advance", "return"} =>
                  cs.doulist_id = extract_doulist_id(Strip(cfg.urls[idx]))
             /\ pc \in {"for", "finished"} =>
                  hist.results[Len(hist.results)] = cs.all_items)
  /\ [][(hist'.started = hist.started /\ run' = run) =>
          IsPrefix(cs.all_items, cs'.all_items)]_vars

\* a crawl that started from a cached record has returned it followed by the
\* two records of its page
C20_Witness ==
  /\ pc = "for"
  /\ Len(cs.cached) = 1
  /\ Len(cs.pages) = 1
  /\ Len(cs.all_items) = 3
  /\ cs.all_items[3].source = cs.doulist_id
  /\ hist.results[Len(hist.results)] = cs.all_items

\* ------------------------------------------------ claims on concurrent runs
\* C21: when two runs that crawled the same source at the same time have both
\* finished, the cache file of the source holds every record either of them
\* gave to save_cache.
C21_ConcurrentRunsKeepAll ==
  (\A r \in Runs : rpc[r] = "done") =>
    LET cache == load_cache(disk, extract_doulist_id(RunUrl))
    IN \A r \in Runs : \A k \in 1..Len(rloc[r].saved) :
         \E j \in 1..Len(cache) : cache[j] = rloc[r].saved[k]

\* ------------------------------------- claims on repeated segmented writes
\* the chunk files of the target that are on disk
ChunkFiles(files) ==
  {f \in DOMAIN files : \E K \in 1..(MaxSegItems + 1) : \E i \in 1..K : f = PartName(i, K)}

\* the files the manifest on disk lists
Listed(files) ==
  IF Exists(files, ManifestPath(SegTarget))
  THEN {<<SegTarget[1]>> \o files[ManifestPath(SegTarget)].parts[i].file :
          i \in 1..Len(files[ManifestPath(SegTarget)].parts)}
  ELSE {}

\* C22: after any sequence of segmented writes to one target, the chunk files
\* on disk are exactly the files the manifest on disk lists, and a manifest on
\* disk describes the record set of the latest write.
C22_DiskMatchesManifest ==
  slast.called =>
    /\ ChunkFiles(sfs) = Listed(sfs)
    /\ Exists(sfs, ManifestPath(SegTarget)) =>
         /\ sfs[ManifestPath(SegTarget)].total_items = Len(slast.items)
         /\ sfs[ManifestPath(SegTarget)].chunk_size = slast.chunk_size

\* C22 as amended: after any sequence of segmented writes to one target of
\* which one had records, the manifest on disk describes the latest write
\* that had records, and every file it lists is on disk and holds its slice
\* of that record set; while no write had records nothing is on disk.
C22_ManifestListsLatest ==
  slast.called =>
    IF slast.live = <<>> THEN sfs = NoFiles
    ELSE LET items == slast.live[1].items
             N == Len(items)
             C == slast.live[1].chunk_size
             K == CHOOSE k \in 1..N : k * C >= N /\ (k - 1) * C < N
             man == sfs[ManifestPath(SegTarget)]
         IN /\ Exists(sfs, ManifestPath(SegTarget))
            /\ man.total_items = N
            /\ man.chunk_size = C
            /\ Len(man.parts) = K
            /\ Listed(sfs) = {PartName(i, K) : i \in 1..K}
            /\ Listed(sfs) \subseteq ChunkFiles(sfs)
            /\ \A i \in 1..K :
                 sfs[PartName(i, K)].items = SubSeq(items, (i - 1) * C + 1, Min(i * C, N))

\* five records in three chunks, then two records in one chunk: the third
\* chunk of the first write is on disk and the manifest does not list it
C22_Witness ==
  /\ scalls = 2
  /\ slast.live # <<>>
  /\ Len(slast.items) = 2
  /\ Listed(sfs) = {PartName(1, 1)}
  /\ Exists(sfs, PartName(3, 3))
====
